---- MODULE Spec2Model ----
(***************************************************************************)
(* A model of nimesh/io/gifti.py: the GIfTI codec of nimesh.  The state is *)
(* the file at one filename, the nibabel GiftiImage a save call is         *)
(* building, the argument and the outcome of the last public call and the  *)
(* warnings that call emitted.                                             *)
(*                                                                         *)
(* Values.  A float64 is modelled by an integer; astype('f4') keeps the    *)
(* 24 significant bits a 4-byte float has (AsF4).  A Python exception is   *)
(* a value R(exc, val) with exc # "", and every statement after a raise    *)
(* is skipped, as in the code.  Python's None for an array is the empty    *)
(* tuple.                                                                  *)
(***************************************************************************)
EXTENDS Integers, Sequences, FiniteSets, TLC

VARIABLES
    file,     \* the container stored at the filename (NoFile: no such file)
    op,       \* the public function of the current (or last) call
    pc,       \* position of the running save call; "idle" between calls
    gii,      \* the GiftiImage the running save call has built so far
    arg,      \* the argument of the current (or last) save call
    ret,      \* how the last completed call ended: return value or exception
    warns,    \* the warnings emitted by the current (or last) call, in order
    writes    \* the number of nib.save calls made by the current (or last) call

vars == <<file, op, pc, gii, arg, ret, warns, writes>>

---------------------------------------------------------------------------
(* Bounds of the model *)

MaxTransforms == 2
MaxSegmentations == 2
MaxVertexData == 2
MaxEstimateArrays == 2
MaxLabelArrays == 2
MaxCode == 5

---------------------------------------------------------------------------
(* Generic helpers *)

None == <<>>

R(exc, val) == [exc |-> exc, val |-> val]

Raised(r) == r.exc # ""

SeqsUpTo(S, n) == UNION {[1..k -> S] : k \in 0..n}

---------------------------------------------------------------------------
(* nimesh entity model (nimesh.core, outside this file) *)

CoordinateSystem == {"UNKNOWN", "SCANNER", "RAS", "LPS", "VOXEL", "MNI", "TALAIRACH"}

\* CoordinateSystem.X.value
CSValue(cs) ==
    CASE cs = "UNKNOWN" -> 0
      [] cs = "SCANNER" -> 1
      [] cs = "RAS" -> 2
      [] cs = "LPS" -> 3
      [] cs = "VOXEL" -> 4
      [] cs = "MNI" -> 5
      [] cs = "TALAIRACH" -> 6

\* CoordinateSystem(value): the member with that value, ValueError when none
CSFromValue(r) ==
    IF Raised(r) THEN r
    ELSE IF \E cs \in CoordinateSystem : CSValue(cs) = r.val
         THEN R("", CHOOSE cs \in CoordinateSystem : CSValue(cs) = r.val)
         ELSE R("ValueError", "CoordinateSystem")

\* str(n) and int(s) (ParseInt) on the decimal numerals
DecimalNumerals == <<"0", "1", "2", "3", "4", "5", "6", "7", "8", "9", "10", "11", "12">>

Str(n) == DecimalNumerals[n + 1]

ParseInt(s) ==
    IF \E n \in 1..Len(DecimalNumerals) : DecimalNumerals[n] = s
    THEN R("", (CHOOSE n \in 1..Len(DecimalNumerals) : DecimalNumerals[n] = s) - 1)
    ELSE R("ValueError", "int")

AffineTransform(transform_coord_sys, affine) ==
    [transform_coord_sys |-> transform_coord_sys, affine |-> affine]

VertexData(name, data) == [name |-> name, data |-> data]

Label(name, color) == [name |-> name, color |-> color]

\* Segmentation(name, keys) with no label yet; labels is the dict key -> Label,
\* kept as the sequence of its items in insertion order
Segmentation(name, keys) == [name |-> name, keys |-> keys, labels |-> <<>>]

\* Segmentation.add_label: dict assignment (a repeated key replaces the value in place)
AddLabel(seg, key, label) ==
    IF \E i \in 1..Len(seg.labels) : seg.labels[i][1] = key
    THEN [seg EXCEPT !.labels =
            [i \in 1..Len(seg.labels) |->
                IF seg.labels[i][1] = key THEN <<key, label>> ELSE seg.labels[i]]]
    ELSE [seg EXCEPT !.labels = Append(@, <<key, label>>)]

\* Mesh(vertices, triangles, coordinate_system, normals): nothing attached yet
Mesh(vertices, triangles, coordinate_system, normals) ==
    [vertices |-> vertices, triangles |-> triangles,
     coordinate_system |-> coordinate_system, normals |-> normals,
     transforms |-> <<>>, segmentations |-> <<>>, vertex_data |-> <<>>]

AddTransform(mesh, t) == [mesh EXCEPT !.transforms = Append(@, t)]
AddSegmentation(mesh, s) == [mesh EXCEPT !.segmentations = Append(@, s)]
AddVertexData(mesh, v) == [mesh EXCEPT !.vertex_data = Append(@, v)]

---------------------------------------------------------------------------
(* numpy conversions *)

F4Exact == 16777216      \* 2^24: every integer up to it is a 4-byte float

\* x.astype('f4') for |x| < 2^25: exact up to 2^24, then the nearest even
\* integer, a tie going to the one whose significand is even (a multiple of 4)
AsF4(x) ==
    LET a == IF x < 0 THEN 0 - x ELSE x
        n == IF a <= F4Exact \/ a % 2 = 0 THEN a
             ELSE IF (a - 1) % 4 = 0 THEN a - 1 ELSE a + 1
    IN IF x < 0 THEN 0 - n ELSE n

AsF4Row(row) == [i \in 1..Len(row) |-> AsF4(row[i])]

\* array.astype('f4') of an N x 3 array or of a vector of N values
AsF4Array(a) == [i \in 1..Len(a) |-> AsF4Row(a[i])]
AsF4Vector(a) == [i \in 1..Len(a) |-> AsF4(a[i])]

\* np.array(color) / 255: a channel as the exact fraction <<c, 255>>
ColorToFloat(color) == [i \in 1..Len(color) |-> <<color[i], 255>>]

\* np.round(np.array(rgba) * 255).astype(int), round half to even
RoundChannel(q) ==
    LET n == q[1] * 255
        d == q[2]
        lo == n \div d
        twice == 2 * (n - lo * d)
    IN IF twice < d THEN lo
       ELSE IF twice > d THEN lo + 1
       ELSE IF lo % 2 = 0 THEN lo ELSE lo + 1

ColorFromFloat(rgba) == [i \in 1..Len(rgba) |-> RoundChannel(rgba[i])]

---------------------------------------------------------------------------
(* The nibabel container, as this file uses it *)

Identity == "identity"

\* nib.gifti.GiftiCoordSystem(dataspace, xformspace, xform)
GiftiCoordSystem(dataspace, xformspace, xform) ==
    [dataspace |-> dataspace, xformspace |-> xformspace, xform |-> xform]

\* the record an array carries when none is given: "GIfTI always contain a transform"
DefaultCoordSystem == GiftiCoordSystem(0, 0, Identity)

NoCoordSystem == [dataspace |-> -1, xformspace |-> -1, xform |-> "None"]

\* nib.gifti.GiftiDataArray(data, intent, datatype, meta, coordsys)
GiftiDataArray(data, intent, datatype, meta, coordsys) ==
    [data |-> data, intent |-> intent, datatype |-> datatype, meta |-> meta,
     coordsys |-> IF coordsys = NoCoordSystem THEN DefaultCoordSystem ELSE coordsys]

EmptyMeta == <<>>

\* nib.gifti.GiftiImage()
GiftiImage == [meta |-> EmptyMeta, arrays |-> <<>>, labeltable |-> <<>>]

add_gifti_data_array(g, array) == [g EXCEPT !.arrays = Append(@, array)]

\* the metadata of an array or of the image: the list of its GiftiNVPairs
\* meta.data.append(GiftiNVPairs(name, value))
MetaAppend(meta, name, val) == Append(meta, <<name, val>>)

\* name in metadata
MetaHas(meta, name) == \E i \in 1..Len(meta) : meta[i][1] = name

\* metadata[name]: the dictionary built from the pairs, a later pair replacing an earlier
MetaGet(meta, name) ==
    meta[CHOOSE i \in 1..Len(meta) :
            /\ meta[i][1] = name
            /\ \A j \in (i + 1)..Len(meta) : meta[j][1] # name][2]

\* gii.get_arrays_from_intent(intent): the arrays of that intent, in container order
get_arrays_from_intent(g, intent) == SelectSeq(g.arrays, LAMBDA a : a.intent = intent)

NoFile == [exists |-> FALSE, image |-> GiftiImage]

\* nib.save(gii, filename): the whole file is replaced
Written(g) == [exists |-> TRUE, image |-> g]

---------------------------------------------------------------------------
(* Coordinate System Registry *)

_convert_coord_sys_to_nifti_code(coord_sys) ==
    CASE coord_sys = "UNKNOWN" -> 0
      [] coord_sys = "SCANNER" -> 1
      [] coord_sys = "RAS" -> 2
      [] coord_sys = "LPS" -> 2
      [] coord_sys = "VOXEL" -> 0
      [] coord_sys = "MNI" -> 4
      [] coord_sys = "TALAIRACH" -> 3

\* convert[code]: a dictionary lookup, KeyError on a code that is no key
_convert_nifti_code_to_coord_sys(code) ==
    CASE code = 0 -> R("", "UNKNOWN")
      [] code = 1 -> R("", "SCANNER")
      [] code = 2 -> R("", "UNKNOWN")
      [] code = 3 -> R("", "TALAIRACH")
      [] code = 4 -> R("", "MNI")
      [] OTHER -> R("KeyError", "code")

---------------------------------------------------------------------------
(* Encoder *)

WarnManySegmentations == "more than one segmentation"
WarnManyTransforms == "more than one transform"

\* GiftiLabel(key, *color) with .label and .key set
GiftiLabel(pair) ==
    [key |-> pair[1], label |-> pair[2].name, rgba |-> ColorToFloat(pair[2].color)]

add_segmentation_to_gii(segmentation, g) ==
    LET meta == MetaAppend(EmptyMeta, "name", segmentation.name)
        label_array == GiftiDataArray(segmentation.keys, "NIFTI_INTENT_LABEL",
                                      "NIFTI_TYPE_INT32", meta, NoCoordSystem)
        g1 == add_gifti_data_array(g, label_array)
        gii_label_table == [i \in 1..Len(segmentation.labels) |->
                                GiftiLabel(segmentation.labels[i])]
    IN [g1 EXCEPT !.labeltable = gii_label_table]

_add_vertex_data_to_gii(vertex_data, g) ==
    add_gifti_data_array(g,
        GiftiDataArray(AsF4Vector(vertex_data.data), "NIFTI_INTENT_ESTIMATE",
                       "NIFTI_TYPE_FLOAT32",
                       MetaAppend(EmptyMeta, "name", vertex_data.name),
                       NoCoordSystem))

\* the workbench tags, at their default values
WorkbenchTags(meta) ==
    MetaAppend(MetaAppend(MetaAppend(meta,
        "AnatomicalStructurePrimary", "Cortex"),
        "AnatomicalStructureSecondary", "GrayWhite"),
        "GeometricType", "Anatomical")

\* a deviating variant, which C6 tells from the code: the last segmentation is saved
SaveSegmentationsLast(mesh, g) ==
    IF Len(mesh.segmentations) # 0
    THEN add_segmentation_to_gii(mesh.segmentations[Len(mesh.segmentations)], g)
    ELSE g

\* save, lines 160-167: the segmentation
SaveSegmentations(mesh, g) ==
    IF Len(mesh.segmentations) # 0
    THEN add_segmentation_to_gii(mesh.segmentations[1], g)
    ELSE g

\* save, lines 172-193: the metadata and the transform record of the vertex array
SavePointsetMeta(mesh) ==
    LET meta == MetaAppend(EmptyMeta, "cs", Str(CSValue(mesh.coordinate_system)))
    IN IF Len(mesh.transforms) # 0
       THEN MetaAppend(meta, "tcs", Str(CSValue(mesh.transforms[1].transform_coord_sys)))
       ELSE meta

SavePointsetCoordSys(mesh) ==
    IF Len(mesh.transforms) # 0
    THEN GiftiCoordSystem(
            _convert_coord_sys_to_nifti_code(mesh.coordinate_system),
            _convert_coord_sys_to_nifti_code(mesh.transforms[1].transform_coord_sys),
            mesh.transforms[1].affine)
    ELSE NoCoordSystem

\* save, lines 195-214: the vertex array
SavePointset(mesh, g) ==
    add_gifti_data_array(g,
        GiftiDataArray(AsF4Array(mesh.vertices), "NIFTI_INTENT_POINTSET",
                       "NIFTI_TYPE_FLOAT32", WorkbenchTags(SavePointsetMeta(mesh)),
                       SavePointsetCoordSys(mesh)))

\* save, lines 216-220: the triangle array (indices lie below the vertex count,
\* far inside the 4-byte range astype('i4') keeps)
SaveTriangles(mesh, g) ==
    add_gifti_data_array(g,
        GiftiDataArray(mesh.triangles, "NIFTI_INTENT_TRIANGLE", "NIFTI_TYPE_INT32",
                       EmptyMeta, NoCoordSystem))

\* save, lines 222-228: the normals
SaveNormals(mesh, g) ==
    IF mesh.normals # None
    THEN add_gifti_data_array(g,
            GiftiDataArray(AsF4Array(mesh.normals), "NIFTI_INTENT_VECTOR",
                           "NIFTI_TYPE_FLOAT32", EmptyMeta, NoCoordSystem))
    ELSE g

\* save, lines 230-232: every vertex data
RECURSIVE SaveVertexDatas(_, _)
SaveVertexDatas(vds, g) ==
    IF vds = <<>> THEN g
    ELSE SaveVertexDatas(Tail(vds), _add_vertex_data_to_gii(Head(vds), g))

\* the warnings save emits, in order
SaveWarnings(mesh) ==
    (IF Len(mesh.segmentations) > 1 THEN <<WarnManySegmentations>> ELSE <<>>)
    \o (IF Len(mesh.transforms) > 1 THEN <<WarnManyTransforms>> ELSE <<>>)

\* the container save has built when it reaches nib.save
SaveImage(mesh) ==
    SaveVertexDatas(mesh.vertex_data,
        SaveNormals(mesh,
            SaveTriangles(mesh,
                SavePointset(mesh,
                    SaveSegmentations(mesh, GiftiImage)))))

\* save_segmentation, lines 259-273
SaveSegmentationImage(segmentation) ==
    add_segmentation_to_gii(segmentation,
        [GiftiImage EXCEPT !.meta = WorkbenchTags(EmptyMeta)])

\* save_vertex_data, lines 320-321
SaveVertexDataImage(vertex_data) == _add_vertex_data_to_gii(vertex_data, GiftiImage)

---------------------------------------------------------------------------
(* Decoder.  A decoding step yields Res(exc, val, warns): the exception it *)
(* raised (exc # "", val the message) or its value, and the warnings it    *)
(* emitted before that.                                                    *)

Res(exc, val, w) == [exc |-> exc, val |-> val, warnings |-> w]

WarnManyVertex == "more than one vertex array"
WarnManyTriangle == "more than one triangle array"
WarnManyVector == "more than one vector array"
WarnManyLabel == "more than one label array"
WarnUnnamedVertexData == "a vertex data array without a name"
WarnManyVertexData == "more than one vertex data"

MsgNoVertex == "The file {} does not contain any vertex data."
MsgNoTriangle == "The file {} does not contain any triangles."
MsgNoSegmentation == "The file {} does not contain any segmentation data."

\* a deviating variant, which C1 tells from the code: the cs key is not read
LoadCoordinateSystemCodeOnly(vertex_array) ==
    _convert_nifti_code_to_coord_sys(vertex_array.coordsys.dataspace)

\* load, lines 52-57: the coordinate system of the vertex array
LoadCoordinateSystem(vertex_array) ==
    IF MetaHas(vertex_array.meta, "cs")
    THEN CSFromValue(ParseInt(MetaGet(vertex_array.meta, "cs")))
    ELSE _convert_nifti_code_to_coord_sys(vertex_array.coordsys.dataspace)

\* a deviating variant, which C2 tells from the code: the tcs key is not read
_get_transform_from_vertex_array_NoSideChannel(vertex_array) ==
    LET gifti_transform == vertex_array.coordsys
    IN IF gifti_transform.dataspace # gifti_transform.xformspace
       THEN LET cs == _convert_nifti_code_to_coord_sys(gifti_transform.xformspace)
            IN IF Raised(cs) THEN cs
               ELSE R("", <<AffineTransform(cs.val, gifti_transform.xform)>>)
       ELSE R("", None)

\* the transform of a vertex array: R(exc, list of no or one AffineTransform)
_get_transform_from_vertex_array(vertex_array) ==
    LET gifti_transform == vertex_array.coordsys
    IN IF MetaHas(vertex_array.meta, "tcs")
       THEN LET cs == CSFromValue(ParseInt(MetaGet(vertex_array.meta, "tcs")))
            IN IF Raised(cs) THEN cs
               ELSE R("", <<AffineTransform(cs.val, gifti_transform.xform)>>)
       ELSE IF gifti_transform.dataspace # gifti_transform.xformspace
       THEN LET cs == _convert_nifti_code_to_coord_sys(gifti_transform.xformspace)
            IN IF Raised(cs) THEN cs
               ELSE R("", <<AffineTransform(cs.val, gifti_transform.xform)>>)
       ELSE R("", None)

\* lines 447-452: the labels of the label table, added in table order
RECURSIVE AddLabelsFromTable(_, _)
AddLabelsFromTable(segmentation, labels) ==
    IF labels = <<>> THEN segmentation
    ELSE AddLabelsFromTable(
            AddLabel(segmentation, Head(labels).key,
                     Label(Head(labels).label, ColorFromFloat(Head(labels).rgba))),
            Tail(labels))

\* Res(exc, list of no or one Segmentation, warnings)
_create_segmentation_from_gii(g) ==
    LET label_arrays == get_arrays_from_intent(g, "NIFTI_INTENT_LABEL")
        w == IF Len(label_arrays) > 1 THEN <<WarnManyLabel>> ELSE <<>>
    IN IF Len(label_arrays) = 0 THEN Res("", None, <<>>)
       ELSE LET label_array == label_arrays[1]
            IN IF ~MetaHas(label_array.meta, "name")
               THEN Res("KeyError", "name", w)
               ELSE Res("", <<AddLabelsFromTable(
                                Segmentation(MetaGet(label_array.meta, "name"), label_array.data),
                                g.labeltable)>>, w)

\* a deviating variant, which C7 tells from the code: an array without a name is
\* kept, with an empty name and no warning
RECURSIVE VertexDataLoopKeepUnnamed(_)
VertexDataLoopKeepUnnamed(vertex_data_arrays) ==
    IF vertex_data_arrays = <<>> THEN Res("", <<>>, <<>>)
    ELSE LET vertex_data_array == Head(vertex_data_arrays)
             rest == VertexDataLoopKeepUnnamed(Tail(vertex_data_arrays))
         IN IF ~MetaHas(vertex_data_array.meta, "name")
            THEN Res("", <<VertexData("", vertex_data_array.data)>> \o rest.val, rest.warnings)
            ELSE Res("", <<VertexData(MetaGet(vertex_data_array.meta, "name"),
                                      vertex_data_array.data)>> \o rest.val, rest.warnings)

\* lines 464-472: the loop over the estimate arrays
RECURSIVE VertexDataLoop(_)
VertexDataLoop(vertex_data_arrays) ==
    IF vertex_data_arrays = <<>> THEN Res("", <<>>, <<>>)
    ELSE LET vertex_data_array == Head(vertex_data_arrays)
             rest == VertexDataLoop(Tail(vertex_data_arrays))
         IN IF ~MetaHas(vertex_data_array.meta, "name")
            THEN Res("", rest.val, <<WarnUnnamedVertexData>> \o rest.warnings)
            ELSE Res("", <<VertexData(MetaGet(vertex_data_array.meta, "name"),
                                      vertex_data_array.data)>> \o rest.val, rest.warnings)

\* the same variant, as the list of a whole image
_get_vertex_data_from_gii_KeepUnnamed(g) ==
    VertexDataLoopKeepUnnamed(get_arrays_from_intent(g, "NIFTI_INTENT_ESTIMATE"))

\* lines 457-474: Res("", list of VertexData, warnings)
_get_vertex_data_from_gii(g) ==
    VertexDataLoop(get_arrays_from_intent(g, "NIFTI_INTENT_ESTIMATE"))

\* load, lines 101-103: every vertex data is attached
RECURSIVE AddVertexDatas(_, _)
AddVertexDatas(mesh, vds) ==
    IF vds = <<>> THEN mesh ELSE AddVertexDatas(AddVertexData(mesh, Head(vds)), Tail(vds))

\* load, lines 88-105: the mesh is created and what the file holds is attached
LoadAttach(g, vertex_array, mesh, w) ==
    LET transform == _get_transform_from_vertex_array(vertex_array)
    IN IF Raised(transform) THEN Res(transform.exc, transform.val, w)
       ELSE LET m1 == IF transform.val # None
                      THEN AddTransform(mesh, transform.val[1]) ELSE mesh
                segmentation == _create_segmentation_from_gii(g)
                w2 == w \o segmentation.warnings
            IN IF Raised(segmentation) THEN Res(segmentation.exc, segmentation.val, w2)
               ELSE LET m2 == IF segmentation.val # None
                              THEN AddSegmentation(m1, segmentation.val[1]) ELSE m1
                        vertex_datas == _get_vertex_data_from_gii(g)
                    IN Res("", AddVertexDatas(m2, vertex_datas.val),
                           w2 \o vertex_datas.warnings)

\* load, lines 59-89: the triangles and the normals
LoadTriangles(g, vertex_array, coordinate_system, w) ==
    LET triangle_arrays == get_arrays_from_intent(g, "NIFTI_INTENT_TRIANGLE")
        w2 == w \o (IF Len(triangle_arrays) > 1 THEN <<WarnManyTriangle>> ELSE <<>>)
        normals_arrays == get_arrays_from_intent(g, "NIFTI_INTENT_VECTOR")
        w3 == w2 \o (IF Len(normals_arrays) > 1 THEN <<WarnManyVector>> ELSE <<>>)
        normals == IF Len(normals_arrays) > 0 THEN normals_arrays[1].data ELSE None
    IN IF Len(triangle_arrays) = 0 THEN Res("ValueError", MsgNoTriangle, w)
       ELSE LoadAttach(g, vertex_array,
                Mesh(vertex_array.data, triangle_arrays[1].data,
                     coordinate_system, normals), w3)

\* load, lines 36-57, from the decoded container
LoadVertexArray(g) ==
    LET vertex_arrays == get_arrays_from_intent(g, "NIFTI_INTENT_POINTSET")
    IN vertex_arrays[1]

\* a deviating variant, which C4 tells from the code: the triangle arrays are
\* looked for before the pointset arrays
LoadImageTrianglesFirst(g) ==
    LET vertex_arrays == get_arrays_from_intent(g, "NIFTI_INTENT_POINTSET")
        w == IF Len(vertex_arrays) > 1 THEN <<WarnManyVertex>> ELSE <<>>
    IN IF Len(get_arrays_from_intent(g, "NIFTI_INTENT_TRIANGLE")) = 0
       THEN Res("ValueError", MsgNoTriangle, <<>>)
       ELSE IF Len(vertex_arrays) = 0 THEN Res("ValueError", MsgNoVertex, <<>>)
       ELSE LET vertex_array == LoadVertexArray(g)
                coordinate_system == LoadCoordinateSystem(vertex_array)
            IN IF Raised(coordinate_system)
               THEN Res(coordinate_system.exc, coordinate_system.val, w)
               ELSE LoadTriangles(g, vertex_array, coordinate_system.val, w)

\* load, lines 36-57, from the decoded container
LoadImage(g) ==
    LET vertex_arrays == get_arrays_from_intent(g, "NIFTI_INTENT_POINTSET")
        w == IF Len(vertex_arrays) > 1 THEN <<WarnManyVertex>> ELSE <<>>
    IN IF Len(vertex_arrays) = 0 THEN Res("ValueError", MsgNoVertex, <<>>)
       ELSE LET vertex_array == LoadVertexArray(g)
                coordinate_system == LoadCoordinateSystem(vertex_array)
            IN IF Raised(coordinate_system)
               THEN Res(coordinate_system.exc, coordinate_system.val, w)
               ELSE LoadTriangles(g, vertex_array, coordinate_system.val, w)

\* nib.load(filename) of a file that does not exist
NotFound == Res("FileNotFoundError", "No such file", <<>>)

load(f) == IF f.exists THEN LoadImage(f.image) ELSE NotFound

load_segmentation(f) ==
    IF ~f.exists THEN NotFound
    ELSE LET segmentation == _create_segmentation_from_gii(f.image)
         IN IF Raised(segmentation) THEN segmentation
            ELSE IF segmentation.val = None
            THEN Res("ValueError", MsgNoSegmentation, segmentation.warnings)
            ELSE Res("", segmentation.val[1], segmentation.warnings)

\* what load_vertex_data returns: one VertexData or a list, as Python tells them apart
OneVertexData(v) == [type |-> "VertexData", item |-> v]
VertexDataList(l) == [type |-> "list", items |-> l]

\* a deviating variant, which C3 tells from the code: the last vertex data is returned
load_vertex_data_Last(f) ==
    IF ~f.exists THEN NotFound
    ELSE LET vertex_data_list == _get_vertex_data_from_gii(f.image)
         IN IF Len(vertex_data_list.val) = 0
            THEN Res("ValueError", MsgNoVertex, vertex_data_list.warnings)
            ELSE Res("", OneVertexData(vertex_data_list.val[Len(vertex_data_list.val)]),
                     vertex_data_list.warnings
                     \o (IF Len(vertex_data_list.val) > 1
                         THEN <<WarnManyVertexData>> ELSE <<>>))

\* load_vertex_data, lines 292-303
load_vertex_data(f) ==
    IF ~f.exists THEN NotFound
    ELSE LET vertex_data_list == _get_vertex_data_from_gii(f.image)
         IN IF Len(vertex_data_list.val) = 0
            THEN Res("ValueError", MsgNoVertex, vertex_data_list.warnings)
            ELSE Res("", OneVertexData(vertex_data_list.val[1]),
                     vertex_data_list.warnings
                     \o (IF Len(vertex_data_list.val) > 1
                         THEN <<WarnManyVertexData>> ELSE <<>>))

---------------------------------------------------------------------------
(* The meshes, segmentations and vertex data the calls are given *)

Vertices3 == << <<0, 0, 0>>, <<1, 0, 0>>, <<0, 1, 16777217>> >>
Vertices4 == << <<0, 0, 0>>, <<2, 0, 0>>, <<0, 2, 0>>, <<0, 0, -3>> >>
Triangles1 == << <<0, 1, 2>> >>
Triangles2 == << <<0, 1, 2>>, <<0, 2, 3>> >>
Normals4 == << <<0, 0, 1>>, <<0, 0, 1>>, <<0, 0, 1>>, <<1, 0, 0>> >>
TwoSided3 == << <<0, 1, 2>>, <<2, 1, 0>> >>
Normals3 == << <<0, 0, 1>>, <<0, 0, 1>>, <<1, 0, 0>> >>

\* geometries of three vertices, the length of the segmentations and vertex data below
Geometries ==
    { Mesh(Vertices3, Triangles1, "UNKNOWN", None),
      Mesh(Vertices3, TwoSided3, "UNKNOWN", Normals3) }

Affines == {"shift", "scale"}

Transforms == {AffineTransform(cs, a) : cs \in CoordinateSystem, a \in Affines}

Parcels ==
    AddLabel(AddLabel(Segmentation("parcels", <<1, 2, 2>>),
        1, Label("precentral", <<255, 128, 0, 255>>)),
        2, Label("insula", <<0, 7, 200, 255>>))

Lobes ==
    AddLabel(Segmentation("lobes", <<7, 7, 7>>), 7, Label("frontal", <<10, 20, 30, 255>>))

Segmentations == {Parcels, Lobes}

Thickness == VertexData("thickness", <<1, 2, 16777219>>)
Curvature == VertexData("curvature", <<0, -1, 5>>)

VertexDatas == {Thickness, Curvature}

\* meshes that vary the coordinate system and the transforms
\* (the first transform is any; the ones after it are copies of one transform)
ExtraTransform == AffineTransform("MNI", "scale")

TransformLists ==
    {<<>>} \cup {<<t>> \o extra : t \in Transforms,
                                 extra \in SeqsUpTo({ExtraTransform}, MaxTransforms - 1)}

MeshesWithTransforms ==
    { [Mesh(Vertices3, Triangles1, cs, None) EXCEPT !.transforms = ts] :
        cs \in CoordinateSystem, ts \in TransformLists }
    \cup { Mesh(Vertices4, Triangles2, cs, Normals4) : cs \in CoordinateSystem }

\* meshes that vary what is attached
MeshesWithAttachments ==
    { [g EXCEPT !.coordinate_system = "RAS", !.segmentations = ss, !.vertex_data = vs] :
        g \in Geometries,
        ss \in SeqsUpTo(Segmentations, MaxSegmentations),
        vs \in SeqsUpTo(VertexDatas, MaxVertexData) }

Meshes == MeshesWithTransforms \cup MeshesWithAttachments

\* the meshes of the statement by statement runs of save
MeshesStepwise ==
    { [g EXCEPT !.coordinate_system = "LPS", !.transforms = ts,
                !.segmentations = ss, !.vertex_data = vs] :
        g \in Geometries,
        ts \in {<<>>, <<ExtraTransform, ExtraTransform>>},
        ss \in {<<>>, <<Parcels>>, <<Parcels, Lobes>>},
        vs \in {<<>>, <<Thickness>>, <<Thickness, Curvature>>} }

---------------------------------------------------------------------------
(* The containers other programs leave at the filename *)

Absent == "absent"

\* the metadata of a vertex array with (or without) the cs and tcs keys
SideChannelMeta(cs, tcs) ==
    (IF cs = Absent THEN EmptyMeta ELSE MetaAppend(EmptyMeta, "cs", cs))
    \o (IF tcs = Absent THEN EmptyMeta ELSE MetaAppend(EmptyMeta, "tcs", tcs))

PointsetArray(data, cs, tcs, coordsys) ==
    GiftiDataArray(data, "NIFTI_INTENT_POINTSET", "NIFTI_TYPE_FLOAT32",
                   SideChannelMeta(cs, tcs), coordsys)

Codes == 0..MaxCode

FirstPointsets ==
    { PointsetArray(Vertices3, cs, tcs, GiftiCoordSystem(ds, xs, a)) :
        cs \in {Absent, "2", "3"}, tcs \in {Absent, "2", "6"},
        ds \in Codes, xs \in Codes, a \in Affines }

SecondPointsets ==
    { PointsetArray(Vertices4, "5", "1", GiftiCoordSystem(4, 1, "scale")),
      PointsetArray(Vertices4, Absent, Absent, GiftiCoordSystem(1, 3, "shift")) }

PlainPointset == PointsetArray(Vertices3, "2", Absent, DefaultCoordSystem)

TriangleArray(data) ==
    GiftiDataArray(data, "NIFTI_INTENT_TRIANGLE", "NIFTI_TYPE_INT32",
                   EmptyMeta, NoCoordSystem)

VectorArray(data) ==
    GiftiDataArray(data, "NIFTI_INTENT_VECTOR", "NIFTI_TYPE_FLOAT32",
                   EmptyMeta, NoCoordSystem)

LabelArrays ==
    { GiftiDataArray(<<1, 2, 2>>, "NIFTI_INTENT_LABEL", "NIFTI_TYPE_INT32",
                     MetaAppend(EmptyMeta, "name", "parcels"), NoCoordSystem),
      GiftiDataArray(<<7, 7, 7>>, "NIFTI_INTENT_LABEL", "NIFTI_TYPE_INT32",
                     EmptyMeta, NoCoordSystem) }

EstimateArrays ==
    { GiftiDataArray(<<1, 2, 3>>, "NIFTI_INTENT_ESTIMATE", "NIFTI_TYPE_FLOAT32",
                     MetaAppend(EmptyMeta, "name", "thickness"), NoCoordSystem),
      GiftiDataArray(<<0, -1, 5>>, "NIFTI_INTENT_ESTIMATE", "NIFTI_TYPE_FLOAT32",
                     MetaAppend(EmptyMeta, "name", "curvature"), NoCoordSystem),
      GiftiDataArray(<<9, 9, 9>>, "NIFTI_INTENT_ESTIMATE", "NIFTI_TYPE_FLOAT32",
                     EmptyMeta, NoCoordSystem) }

Container(arrays, labeltable) ==
    [meta |-> EmptyMeta, arrays |-> arrays, labeltable |-> labeltable]

\* the label table another program wrote for the parcels
ParcelsTable == <<GiftiLabel(<<1, Label("precentral", <<255, 128, 0, 255>>)>>),
                  GiftiLabel(<<2, Label("insula", <<0, 7, 200, 255>>)>>)>>

\* containers that vary the vertex arrays: none, one, or two of them
PointsetLists ==
    {<<>>} \cup {<<p>> : p \in FirstPointsets}
           \cup {<<p, q>> : p \in FirstPointsets, q \in SecondPointsets}

\* containers that vary the arrays of the other intents
PlainPointsetLists == {<<>>, <<PlainPointset>>, <<PlainPointset, PlainPointset>>}

TriangleLists ==
    {<<>>, <<TriangleArray(Triangles1)>>,
     <<TriangleArray(Triangles1), TriangleArray(Triangles2)>>}

VectorLists ==
    {<<>>, <<VectorArray(Normals4)>>, <<VectorArray(Normals4), VectorArray(Vertices3)>>}

---------------------------------------------------------------------------
(* The calls *)

NoArg == [kind |-> "none"]
MeshArg(mesh) == [kind |-> "mesh", value |-> mesh]
SegmentationArg(segmentation) == [kind |-> "segmentation", value |-> segmentation]
VertexDataArg(vertex_data) == [kind |-> "vertex_data", value |-> vertex_data]

NoRet == Res("", "no call has returned", <<>>)

Init ==
    /\ file = NoFile
    /\ op = "none"
    /\ pc = "idle"
    /\ gii = GiftiImage
    /\ arg = NoArg
    /\ ret = NoRet
    /\ warns = <<>>
    /\ writes = 0

\* a call that reads the file and returns r
Returns(name, r) ==
    /\ op' = name
    /\ ret' = R(r.exc, r.val)
    /\ warns' = r.warnings
    /\ writes' = 0
    /\ UNCHANGED <<file, pc, gii, arg>>

Load ==
    /\ pc = "idle"
    /\ Returns("load", load(file))

LoadSegmentation ==
    /\ pc = "idle"
    /\ Returns("load_segmentation", load_segmentation(file))

LoadVertexData ==
    /\ pc = "idle"
    /\ Returns("load_vertex_data", load_vertex_data(file))

\* a save call from its first statement to its return
Saves(name, a, image, w) ==
    /\ op' = name
    /\ arg' = a
    /\ file' = Written(image)
    /\ writes' = 1
    /\ warns' = w
    /\ ret' = R("", None)
    /\ UNCHANGED <<pc, gii>>

Save ==
    \E mesh \in Meshes :
        /\ pc = "idle"
        /\ Saves("save", MeshArg(mesh), SaveImage(mesh), SaveWarnings(mesh))

SaveSegmentation ==
    \E segmentation \in Segmentations :
        /\ pc = "idle"
        /\ Saves("save_segmentation", SegmentationArg(segmentation),
                 SaveSegmentationImage(segmentation), <<>>)

SaveVertexData ==
    \E vertex_data \in VertexDatas :
        /\ pc = "idle"
        /\ Saves("save_vertex_data", VertexDataArg(vertex_data),
                 SaveVertexDataImage(vertex_data), <<>>)

Next ==
    \/ Save
    \/ SaveSegmentation
    \/ SaveVertexData
    \/ Load
    \/ LoadSegmentation
    \/ LoadVertexData

Spec == Init /\ [][Next]_vars

\* the calls that read a file another program wrote
InitWith(c) ==
    /\ file = Written(c)
    /\ op = "none"
    /\ pc = "idle"
    /\ gii = GiftiImage
    /\ arg = NoArg
    /\ ret = NoRet
    /\ warns = <<>>
    /\ writes = 0

InitDecode ==
    \/ \E ps \in PointsetLists, ts \in {<<>>, <<TriangleArray(Triangles1)>>} :
            InitWith(Container(ps \o ts, <<>>))
    \/ \E ps \in PlainPointsetLists, ts \in TriangleLists, ns \in VectorLists,
          ls \in SeqsUpTo(LabelArrays, MaxLabelArrays),
          es \in SeqsUpTo(EstimateArrays, MaxEstimateArrays),
          lt \in {<<>>, ParcelsTable} :
            InitWith(Container(es \o ps \o ts \o ns \o ls, lt))

NextDecode ==
    \/ Load
    \/ LoadSegmentation
    \/ LoadVertexData

SpecDecode == InitDecode /\ [][NextDecode]_vars

---------------------------------------------------------------------------
(* The save calls, statement by statement.  pc names the statement group   *)
(* that runs next; any of them but the write may raise.                    *)

\* the order of the statements of save, save_segmentation and save_vertex_data
FirstPc(name) ==
    CASE name = "save" -> "segmentation"
      [] name = "save_segmentation" -> "meta"
      [] name = "save_vertex_data" -> "vertex_data"

\* a deviating variant, which C9 tells from the code: save writes the file before
\* the vertex data are added
NextPcWriteBeforeVertexData(name, at) ==
    CASE name = "save" /\ at = "segmentation" -> "pointset"
      [] name = "save" /\ at = "pointset" -> "triangles"
      [] name = "save" /\ at = "triangles" -> "normals"
      [] name = "save" /\ at = "normals" -> "write"
      [] name = "save" /\ at = "vertex_data" -> "write"
      [] name = "save_segmentation" /\ at = "meta" -> "segmentation"
      [] name = "save_segmentation" /\ at = "segmentation" -> "write"
      [] name = "save_vertex_data" /\ at = "vertex_data" -> "write"

\* the statements that follow those at `at`, in the order of the source
NextPc(name, at) ==
    CASE name = "save" /\ at = "segmentation" -> "pointset"
      [] name = "save" /\ at = "pointset" -> "triangles"
      [] name = "save" /\ at = "triangles" -> "normals"
      [] name = "save" /\ at = "normals" -> "vertex_data"
      [] name = "save" /\ at = "vertex_data" -> "write"
      [] name = "save_segmentation" /\ at = "meta" -> "segmentation"
      [] name = "save_segmentation" /\ at = "segmentation" -> "write"
      [] name = "save_vertex_data" /\ at = "vertex_data" -> "write"

\* what the statements at `at` make of the image g
Build(name, at, a, g) ==
    CASE name = "save" /\ at = "segmentation" -> SaveSegmentations(a, g)
      [] name = "save" /\ at = "pointset" -> SavePointset(a, g)
      [] name = "save" /\ at = "triangles" -> SaveTriangles(a, g)
      [] name = "save" /\ at = "normals" -> SaveNormals(a, g)
      [] name = "save" /\ at = "vertex_data" -> SaveVertexDatas(a.vertex_data, g)
      [] name = "save_segmentation" /\ at = "meta" ->
            [g EXCEPT !.meta = WorkbenchTags(@)]
      [] name = "save_segmentation" /\ at = "segmentation" ->
            add_segmentation_to_gii(a, g)
      [] name = "save_vertex_data" /\ at = "vertex_data" ->
            _add_vertex_data_to_gii(a, g)

\* the warnings the statements at `at` emit
BuildWarnings(name, at, a) ==
    IF name = "save" /\ at = "segmentation" /\ Len(a.segmentations) > 1
    THEN <<WarnManySegmentations>>
    ELSE IF name = "save" /\ at = "pointset" /\ Len(a.transforms) > 1
    THEN <<WarnManyTransforms>>
    ELSE <<>>

Begins(name, a) ==
    /\ op' = name
    /\ arg' = a
    /\ gii' = GiftiImage
    /\ pc' = FirstPc(name)
    /\ ret' = NoRet
    /\ warns' = <<>>
    /\ writes' = 0
    /\ UNCHANGED file

BeginSave ==
    \E mesh \in MeshesStepwise :
        /\ pc = "idle"
        /\ Begins("save", MeshArg(mesh))

BeginSaveSegmentation ==
    \E segmentation \in Segmentations :
        /\ pc = "idle"
        /\ Begins("save_segmentation", SegmentationArg(segmentation))

BeginSaveVertexData ==
    \E vertex_data \in VertexDatas :
        /\ pc = "idle"
        /\ Begins("save_vertex_data", VertexDataArg(vertex_data))

\* the statements at pc run to their end
Construct ==
    /\ pc \notin {"idle", "write"}
    /\ gii' = Build(op, pc, arg.value, gii)
    /\ warns' = warns \o BuildWarnings(op, pc, arg.value)
    /\ pc' = NextPc(op, pc)
    /\ UNCHANGED <<file, op, arg, ret, writes>>

\* a statement at pc raises: the call ends there
Raise ==
    /\ pc \notin {"idle", "write"}
    /\ ret' = R("Exception", pc)
    /\ pc' = "idle"
    /\ gii' = GiftiImage
    /\ UNCHANGED <<file, op, arg, warns, writes>>

\* nib.save(gii, filename), the last statement
Write ==
    /\ pc = "write"
    /\ file' = Written(gii)
    /\ writes' = writes + 1
    /\ ret' = R("", None)
    /\ pc' = "idle"
    /\ gii' = GiftiImage
    /\ UNCHANGED <<op, arg, warns>>

NextWrite ==
    \/ BeginSave
    \/ BeginSaveSegmentation
    \/ BeginSaveVertexData
    \/ Construct
    \/ Raise
    \/ Write

SpecWrite == Init /\ [][NextWrite]_vars

---------------------------------------------------------------------------
(* What the properties below speak of *)

Pointsets == get_arrays_from_intent(file.image, "NIFTI_INTENT_POINTSET")
Triangles == get_arrays_from_intent(file.image, "NIFTI_INTENT_TRIANGLE")
Labels == get_arrays_from_intent(file.image, "NIFTI_INTENT_LABEL")
Estimates == get_arrays_from_intent(file.image, "NIFTI_INTENT_ESTIMATE")

Named(a) == MetaHas(a.meta, "name")
NamedEstimates == SelectSeq(Estimates, Named)
UnnamedEstimates == SelectSeq(Estimates, LAMBDA a : ~Named(a))

\* the VertexData an estimate array with a name stands for
AsVertexData(a) == VertexData(MetaGet(a.meta, "name"), a.data)

Count(s, x) == Cardinality({i \in 1..Len(s) : s[i] = x})

\* the mesh a save call was given, once the call is a save of a mesh
SavedMesh == arg.value
LoadedSavedMesh == op = "load" /\ arg.kind = "mesh"

Abs(x) == IF x < 0 THEN 0 - x ELSE x

\* the codes the decoding table of the registry lists
TableCodes == {0, 1, 2, 3, 4}

---------------------------------------------------------------------------
(* Round trips of save and load (specification Spec) *)

\* C1: a mesh saved and then loaded (N >= 3 vertices, M >= 1 triangles, any
\* coordinate system X, no or one transform) comes back with its vertices (as
\* narrowed to 4-byte floats by the encoder, so unchanged when they are such
\* floats), its triangles, and coordinate system X itself, read from the cs key.
C1_RoundTrip ==
    (LoadedSavedMesh /\ Len(SavedMesh.transforms) <= 1) =>
        /\ ret.exc = ""
        /\ ret.val.vertices = AsF4Array(SavedMesh.vertices)
        /\ (\A i \in 1..Len(SavedMesh.vertices) : \A j \in 1..3 :
                Abs(SavedMesh.vertices[i][j]) <= F4Exact)
            => ret.val.vertices = SavedMesh.vertices
        /\ Len(ret.val.vertices) = Len(SavedMesh.vertices)
        /\ ret.val.triangles = SavedMesh.triangles
        /\ ret.val.coordinate_system = SavedMesh.coordinate_system

\* an LPS mesh with one transform to RAS (both have reference-frame code 2) was
\* saved and loaded
C1_Witness ==
    /\ LoadedSavedMesh
    /\ ret.exc = ""
    /\ SavedMesh.coordinate_system = "LPS"
    /\ Len(SavedMesh.transforms) = 1
    /\ SavedMesh.transforms[1].transform_coord_sys = "RAS"
    /\ Len(SavedMesh.vertices) >= 3
    /\ Len(SavedMesh.triangles) >= 1
    /\ ret.val.coordinate_system = "LPS"

\* the meshes of C2: the first transform targets the mesh's own coordinate system
SavedWithSelfTransform ==
    /\ LoadedSavedMesh
    /\ Len(SavedMesh.transforms) >= 1
    /\ SavedMesh.transforms[1].transform_coord_sys = SavedMesh.coordinate_system

\* C2, as claimed: a mesh saved with a first transform that targets its own
\* coordinate system loads with no transform.
C2_IdentityElided ==
    SavedWithSelfTransform => (ret.exc = "" /\ ret.val.transforms = <<>>)

\* C2, amended: such a mesh loads with exactly one transform, the first one it
\* was saved with (target X, same matrix): save writes the tcs key, and the key
\* decides before the codes are compared.
C2_SelfTransformKept ==
    SavedWithSelfTransform =>
        (ret.exc = "" /\ ret.val.transforms = <<SavedMesh.transforms[1]>>)

C2_Witness ==
    /\ SavedWithSelfTransform
    /\ SavedMesh.coordinate_system = "VOXEL"
    /\ Len(ret.val.transforms) = 1
    /\ ret.val.transforms[1].transform_coord_sys = "VOXEL"

\* C6: saving a mesh with two or more segmentations does not fail, warns, and
\* leaves one label array and a label table with exactly the entries of the
\* first segmentation (its keys, names and colours, and its per-vertex keys).
C6_FirstSegmentationOnly ==
    (op = "save" /\ arg.kind = "mesh" /\ Len(SavedMesh.segmentations) >= 2) =>
        LET first == SavedMesh.segmentations[1]
            table == file.image.labeltable
        IN /\ ret.exc = ""
           /\ writes = 1
           /\ Count(warns, WarnManySegmentations) = 1
           /\ Len(Labels) = 1
           /\ Labels[1].data = first.keys
           /\ MetaGet(Labels[1].meta, "name") = first.name
           /\ Len(table) = Len(first.labels)
           /\ \A i \in 1..Len(table) :
                /\ table[i].key = first.labels[i][1]
                /\ table[i].label = first.labels[i][2].name
                /\ ColorFromFloat(table[i].rgba) = first.labels[i][2].color

C6_Witness ==
    /\ op = "save"
    /\ arg.kind = "mesh"
    /\ SavedMesh.segmentations = <<Lobes, Parcels>>
    /\ Len(SavedMesh.vertex_data) = 1
    /\ Len(file.image.labeltable) = 1
    /\ file.image.labeltable[1].key = 7

---------------------------------------------------------------------------
(* Decoding of containers written by other tools (specification SpecDecode) *)

FirstPointsetResolves ==
    /\ Pointsets # <<>>
    /\ \/ MetaHas(Pointsets[1].meta, "cs")
       \/ Pointsets[1].coordsys.dataspace \in TableCodes

\* C4, as claimed: loading a container without a triangle array raises the error
\* that names the missing triangles, whatever its pointset arrays (none, one,
\* several).
C4_MissingTrianglesNamed ==
    (op = "load" /\ Triangles = <<>>) =>
        (ret.exc = "ValueError" /\ ret.val = MsgNoTriangle)

\* C4, amended: loading a container without a triangle array always fails and
\* returns no mesh; the error names the missing vertices when there is no
\* pointset array, and names the missing triangles when there is at least one
\* pointset array and the coordinate system of the first one resolves.
C4_MissingTrianglesFail ==
    (op = "load" /\ Triangles = <<>>) =>
        /\ ret.exc # ""
        /\ Pointsets = <<>> => (ret.exc = "ValueError" /\ ret.val = MsgNoVertex)
        /\ FirstPointsetResolves => (ret.exc = "ValueError" /\ ret.val = MsgNoTriangle)

C4_Witness ==
    /\ op = "load"
    /\ Triangles = <<>>
    /\ Len(Pointsets) = 2
    /\ ret.exc = "ValueError"
    /\ ret.val = MsgNoTriangle

\* C4's other case: no triangle array and no pointset array either
C4_NoPointsetReached ==
    /\ op = "load"
    /\ Triangles = <<>>
    /\ Pointsets = <<>>
    /\ ret.val = MsgNoVertex

\* C5: loading a container with two pointset arrays and one triangle array
\* succeeds, builds the mesh from the first pointset array alone, and emits exactly
\* one warning (that about the pointset arrays).
C5_FirstPointsetUsed ==
    (op = "load" /\ Len(Pointsets) = 2 /\ Len(Triangles) = 1
        /\ Len(file.image.arrays) = 3) =>
        /\ ret.exc = ""
        /\ ret.val.vertices = Pointsets[1].data
        /\ MetaHas(Pointsets[1].meta, "cs") =>
            ret.val.coordinate_system
                = CSFromValue(ParseInt(MetaGet(Pointsets[1].meta, "cs"))).val
        /\ ret.val.transforms = _get_transform_from_vertex_array(Pointsets[1]).val
        /\ warns = <<WarnManyVertex>>

\* such a load fails when the first pointset array has no cs key and a code
\* that the decoding table does not list
C5_Failure ==
    /\ op = "load"
    /\ Len(Pointsets) = 2
    /\ Len(Triangles) = 1
    /\ Len(file.image.arrays) = 3
    /\ ~MetaHas(Pointsets[1].meta, "cs")
    /\ Pointsets[1].coordsys.dataspace \notin TableCodes
    /\ ret.exc = "KeyError"
    /\ ret.val = "code"

\* what C5 says holds of the containers whose codes the decoding table lists
C5_OnTableCodes ==
    (\A i \in 1..Len(Pointsets) :
        {Pointsets[i].coordsys.dataspace, Pointsets[i].coordsys.xformspace}
            \subseteq TableCodes)
    => C5_FirstPointsetUsed

\* C7: in a load that succeeds the mesh has the vertex data of the named
\* estimate arrays, in container order; an estimate array without a name is
\* skipped with one warning each and changes nothing else of the outcome: not
\* whether the load fails, nor the error, nor the rest of the mesh.
C7_UnnamedSkipped ==
    op = "load" =>
        LET named == [meta |-> file.image.meta,
                      arrays |-> SelectSeq(file.image.arrays,
                                    LAMBDA a : a.intent # "NIFTI_INTENT_ESTIMATE" \/ Named(a)),
                      labeltable |-> file.image.labeltable]
            without == load(Written(named))
        IN /\ ret.exc = without.exc
           /\ ret.val = without.val
           /\ ret.exc = "" =>
                /\ ret.val.vertex_data
                    = [i \in 1..Len(NamedEstimates) |-> AsVertexData(NamedEstimates[i])]
                /\ Count(warns, WarnUnnamedVertexData) = Len(UnnamedEstimates)
                /\ SelectSeq(warns, LAMBDA x : x # WarnUnnamedVertexData) = without.warnings

C7_Witness ==
    /\ op = "load"
    /\ ret.exc = ""
    /\ Len(Estimates) = 2
    /\ ~Named(Estimates[1])
    /\ Named(Estimates[2])
    /\ ret.val.vertex_data = <<AsVertexData(Estimates[2])>>
    /\ Count(warns, WarnUnnamedVertexData) = 1

\* the decoding table of the registry as the registry is described: total, every
\* code it does not list (and 2, which has two encodings) decoded to UNKNOWN
from_code(code) ==
    CASE code = 1 -> "SCANNER"
      [] code = 3 -> "TALAIRACH"
      [] code = 4 -> "MNI"
      [] OTHER -> "UNKNOWN"

\* C8: from_code decodes 0, 1, 2, 3, 4 to UNKNOWN, SCANNER, UNKNOWN, TALAIRACH,
\* MNI and every other code to UNKNOWN; a pointset array without a cs key gets
\* the coordinate system of its code, and no code makes a load fail.
C8_FromCodeTotal ==
    op = "load" =>
        /\ \A i \in 1..Len(Pointsets) :
            \A code \in {Pointsets[i].coordsys.dataspace, Pointsets[i].coordsys.xformspace} :
                _convert_nifti_code_to_coord_sys(code) = R("", from_code(code))
        /\ ret # R("KeyError", "code")
        /\ (ret.exc = "" /\ ~MetaHas(Pointsets[1].meta, "cs")) =>
            ret.val.coordinate_system = from_code(Pointsets[1].coordsys.dataspace)

\* a load fails on the code of its pointset array
C8_Failure ==
    /\ op = "load"
    /\ Len(Pointsets) = 1
    /\ Len(Triangles) = 1
    /\ ~MetaHas(Pointsets[1].meta, "cs")
    /\ Pointsets[1].coordsys.dataspace \notin TableCodes
    /\ _convert_nifti_code_to_coord_sys(Pointsets[1].coordsys.dataspace).exc = "KeyError"
    /\ ret.exc = "KeyError"

\* what C8 says holds of the codes the decoding table lists
C8_OnTableCodes ==
    (\A i \in 1..Len(Pointsets) :
        {Pointsets[i].coordsys.dataspace, Pointsets[i].coordsys.xformspace}
            \subseteq TableCodes)
    => C8_FromCodeTotal

\* C10: the transform of a pointset array is (a) with a tcs key: one transform
\* to the coordinate system of the key, with the array's matrix; (b) without
\* the key and with different source and target codes: one transform to the
\* decoding of the target code; (c) otherwise none.  A loaded mesh has the
\* transform of its first pointset array, so at most one.
C10_TransformRules ==
    op = "load" =>
    /\ \A i \in 1..Len(Pointsets) :
        LET a == Pointsets[i]
            t == _get_transform_from_vertex_array(a)
        IN /\ MetaHas(a.meta, "tcs") =>
                t = R("", <<AffineTransform(
                                CSFromValue(ParseInt(MetaGet(a.meta, "tcs"))).val,
                                a.coordsys.xform)>>)
           /\ (~MetaHas(a.meta, "tcs") /\ a.coordsys.dataspace # a.coordsys.xformspace) =>
                /\ t.exc = ""
                /\ Len(t.val) = 1
                /\ t.val[1].affine = a.coordsys.xform
                /\ t.val[1].transform_coord_sys = from_code(a.coordsys.xformspace)
           /\ (~MetaHas(a.meta, "tcs") /\ a.coordsys.dataspace = a.coordsys.xformspace) =>
                t = R("", None)
    /\ ret.exc = "" =>
        /\ Len(ret.val.transforms) <= 1
        /\ ret.val.transforms = _get_transform_from_vertex_array(Pointsets[1]).val

\* rule (b) on a target code that the decoding table does not list: no
\* transform, the load fails
C10_Failure ==
    /\ op = "load"
    /\ Len(Pointsets) = 1
    /\ Len(Triangles) = 1
    /\ MetaHas(Pointsets[1].meta, "cs")
    /\ ~MetaHas(Pointsets[1].meta, "tcs")
    /\ Pointsets[1].coordsys.dataspace \in TableCodes
    /\ Pointsets[1].coordsys.xformspace \notin TableCodes
    /\ _get_transform_from_vertex_array(Pointsets[1]).exc = "KeyError"
    /\ ret.exc = "KeyError"
    /\ ret.val = "code"

\* what C10 says holds of the codes the decoding table lists
C10_OnTableCodes ==
    (\A i \in 1..Len(Pointsets) :
        {Pointsets[i].coordsys.dataspace, Pointsets[i].coordsys.xformspace}
            \subseteq TableCodes)
    => C10_TransformRules

---------------------------------------------------------------------------
(* The order of construction and write (specification SpecWrite) *)

ArraysOf(g, intent) == Len(get_arrays_from_intent(g, intent))

\* the image under construction holds all that the call in progress is to write
Constructed ==
    CASE op = "save" ->
            /\ ArraysOf(gii, "NIFTI_INTENT_LABEL")
                = (IF arg.value.segmentations # <<>> THEN 1 ELSE 0)
            /\ ArraysOf(gii, "NIFTI_INTENT_POINTSET") = 1
            /\ ArraysOf(gii, "NIFTI_INTENT_TRIANGLE") = 1
            /\ ArraysOf(gii, "NIFTI_INTENT_VECTOR")
                = (IF arg.value.normals # None THEN 1 ELSE 0)
            /\ ArraysOf(gii, "NIFTI_INTENT_ESTIMATE") = Len(arg.value.vertex_data)
            /\ gii = SaveImage(arg.value)
      [] op = "save_segmentation" ->
            /\ ArraysOf(gii, "NIFTI_INTENT_LABEL") = 1
            /\ gii = SaveSegmentationImage(arg.value)
      [] op = "save_vertex_data" ->
            /\ ArraysOf(gii, "NIFTI_INTENT_ESTIMATE") = 1
            /\ gii = SaveVertexDataImage(arg.value)

\* C9: in save, save_segmentation and save_vertex_data the file is written at
\* most once per call, and only by the last statement, when the image holds the
\* segmentation, pointset, triangles, normals and every vertex data of the call;
\* every other step leaves the file as it is, and a call that ends in a failure
\* of a construction step has written nothing.
C9_WriteOrdering ==
    [][ /\ writes' <= 1
        /\ IF writes' > writes
           THEN pc = "write" /\ Constructed /\ file' = Written(gii)
           ELSE file' = file
        /\ ret'.exc = "Exception" => writes' = 0 ]_vars

\* a save of a mesh with a segmentation, normals and two vertex data has written
C9_Witness ==
    /\ op = "save"
    /\ pc = "idle"
    /\ ret.exc = ""
    /\ writes = 1
    /\ arg.value.segmentations # <<>>
    /\ arg.value.normals # None
    /\ Len(arg.value.vertex_data) = 2
    /\ ArraysOf(file.image, "NIFTI_INTENT_ESTIMATE") = 2

\* a save failed at the vertex data, after a file had been written by an earlier call
C9_FailureReached ==
    /\ op = "save"
    /\ ret = R("Exception", "vertex_data")
    /\ writes = 0
    /\ file.exists

====
